---- MODULE Spec2Model ----
(***************************************************************************)
(* CloudWatch alarm management for an autoscaling group.                   *)
(*                                                                         *)
(* Two Lambda handlers are modelled from their source:                     *)
(*   - lambda/cw_alarm/cw_alarm.py : the lifecycle handler (instance       *)
(*     launch / terminate);                                                *)
(*   - lambda/ddb/default_alarms.py : the definition-change handler that   *)
(*     reacts to DynamoDB stream records.                                  *)
(* Every call to a collaborator (DynamoDB, CloudWatch, Auto Scaling) is    *)
(* one step of the invocation that makes it, and may fail.                 *)
(*                                                                         *)
(* Strings that take part in alarm names are sequences of one-character    *)
(* strings, so that formatting, splitting on "-" and prefix matching are   *)
(* computed as the code computes them.                                     *)
(***************************************************************************)
EXTENDS Integers, Sequences, FiniteSets, TLC

\* ------------------------------------------------------------------ bounds

\* Number of administrative writes to the definition table.
MaxWrites == 2
\* Number of collaborator calls that fail in one behaviour.
MaxFailures == 1

\* ----------------------------------------------------------------- strings

Hyphen == "-"

\* f'{a}-{b}'
Dash(a, b) == a \o <<Hyphen>> \o b

\* str.startswith, the matching rule of describe_alarms(AlarmNamePrefix=...)
StartsWith(s, p) == Len(p) <= Len(s) /\ SubSeq(s, 1, Len(p)) = p

\* Index of the first "-" of s at or after position i, or Len(s)+1.
RECURSIVE NextHyphen(_, _)
NextHyphen(s, i) ==
    IF i > Len(s) THEN Len(s) + 1
    ELSE IF s[i] = Hyphen THEN i
    ELSE NextHyphen(s, i + 1)

\* str.split('-')
RECURSIVE Split(_)
Split(s) ==
    LET h == NextHyphen(s, 1)
    IN  IF h > Len(s) THEN <<s>>
        ELSE <<SubSeq(s, 1, h - 1)>> \o Split(SubSeq(s, h + 1, Len(s)))

\* '-'.join(parts)
RECURSIVE Join(_)
Join(parts) ==
    IF Len(parts) = 0 THEN <<>>
    ELSE IF Len(parts) = 1 THEN parts[1]
    ELSE parts[1] \o <<Hyphen>> \o Join(Tail(parts))

\* alarm_name.split('-')[2]
DecodeThirdPart(alarm_name) == Split(alarm_name)[3]

\* alarm_name.split('-')[2:-1] joined with '-'
DecodeInstanceId(alarm_name) ==
    LET alarm_name_parts == Split(alarm_name)
    IN  Join(SubSeq(alarm_name_parts, 3, Len(alarm_name_parts) - 1))

\* f'{name}-{type}-{instance_id}-{suffix}'
FormatAlarmName(name, type, instance_id, suffix) ==
    Dash(Dash(Dash(name, type), instance_id), suffix)

\* ------------------------------------------------------- definition records

\* A DynamoDB attribute: its type tag and its value.  The lifecycle handler
\* reads the deserialised value whatever its type (boto3 resource); the
\* definition-change handler reads the stream image and asks for ['S'].
\* The value sits in v (a string) or in n (a number, a boolean as 0 / 1).
S(v) == [t |-> "S", v |-> v, n |-> 0]
N(n) == [t |-> "N", v |-> "", n |-> n]
B(b) == [t |-> "BOOL", v |-> "", n |-> IF b THEN 1 ELSE 0]
Missing == [t |-> "missing", v |-> "", n |-> 0]
\* the same for the two attributes that go into alarm names, whose strings
\* are kept as sequences of characters
MissingName == [t |-> "missing", v |-> <<>>, n |-> 0]

Err == -1

\* float(x) / int(x) on a deserialised attribute value: a number converts, a
\* numeral string converts, any other string raises ValueError.
ToNumber(a) ==
    IF a.t \in {"N", "BOOL"} THEN a.n
    ELSE CASE a.v = "1" -> 1
           [] a.v = "80" -> 80
           [] a.v = "90" -> 90
           [] a.v = "300" -> 300
           [] OTHER -> Err

App == <<"w">>
TypeP == <<"p">>
I1 == <<"i", "-", "1">>
I2 == <<"i", "-", "1", "2">>
Instances == {I1, I2}

MetricC == <<"C">>
MetricM == <<"M">>
SuffixH == <<"H">>

CPU80 ==
    [key |-> "cpu",
     AlarmName |-> S(MetricC),
     AlarmDescription |-> S("cpu high"),
     MetricName |-> S(MetricC),
     ComparisonOperator |-> S("GreaterThanThreshold"),
     Period |-> S("300"),
     Statistic |-> S("Average"),
     Threshold |-> S("80"),
     ActionsEnabled |-> S("True"),
     EvaluationPeriods |-> S("1")]
\* a second definition, whose ActionsEnabled is stored as a boolean
MEM ==
    [CPU80 EXCEPT !.key = "mem", !.AlarmName = S(MetricM),
                  !.MetricName = S(MetricM),
                  !.AlarmDescription = S("memory high"),
                  !.ActionsEnabled = B(TRUE)]
\* a definition whose AlarmName label differs from its MetricName
HCPU == [CPU80 EXCEPT !.AlarmName = S(SuffixH)]
\* a definition with a bad field: Threshold is not a numeral
BADT == [MEM EXCEPT !.Threshold = S("abc")]

\* The Alarms maps an administrator may store for an application identity.
DefSets == { {CPU80}, {CPU80, MEM}, {HCPU}, {CPU80, BADT} }

Keys == { <<App, TypeP>> }
\* A stored item: its Alarms attribute may be absent (a malformed record).
Item(defs) == [found |-> TRUE, hasAlarms |-> TRUE, Alarms |-> defs]
ItemNoAlarms == [found |-> TRUE, hasAlarms |-> FALSE, Alarms |-> {}]
NoItem == [found |-> FALSE, hasAlarms |-> FALSE, Alarms |-> {}]

\* -------------------------------------------------------------------- tags

TagName == "application-name"
TagType == "application-type"
TagCreate == "create-cloudwatch-alarm"

Tagged(name, type) ==
    [k \in {TagName, TagType, TagCreate} |->
        IF k = TagName THEN name ELSE IF k = TagType THEN type ELSE <<"t">>]
AppTagsOnly(name, type) ==
    [k \in {TagName, TagType} |-> IF k = TagName THEN name ELSE type]
NoTags == [k \in {} |-> <<>>]

\* --------------------------------------------------------------- constants

Namespace == "AWS/EC2"
SNS_TOPIC_ARN == "topic"
LAUNCHING == "autoscaling:EC2_INSTANCE_LAUNCHING"
TERMINATING == "autoscaling:EC2_INSTANCE_TERMINATING"
Absent == "<absent>"

\* ------------------------------------------------------------------- state

VARIABLES
    alarms,     \* CloudWatch: alarm name -> configuration
    store,      \* DynamoDB table: (Name, Type) -> item
    stream,     \* DynamoDB stream: change records not yet delivered
    tags,       \* EC2: instance id -> tags
    phase,      \* Auto Scaling: instance id -> "new" | "launched" | "terminated"
    writes,     \* administrative writes made so far
    failures,   \* collaborator calls that have failed so far
    lc,         \* the lifecycle handler's invocation
    dc,         \* the definition-change handler's invocation
    cf,         \* the definition handler's invocation on a provisioning event
    naming      \* an alarm name being built and decoded

vars == <<alarms, store, stream, tags, phase, writes, failures, lc, dc, cf, naming>>

\* ----------------------------------------------------- CloudWatch (client)

\* a put that adds an alarm beside the one of that name
PutMetricAlarmBeside(as, alarm_name, cfg) ==
    LET n == IF alarm_name \in DOMAIN as THEN Append(alarm_name, "2") ELSE alarm_name
    IN  [k \in DOMAIN as \cup {n} |-> IF k = n THEN cfg ELSE as[k]]

\* put_metric_alarm: create, or fully replace, the alarm of that name
PutMetricAlarm(as, alarm_name, cfg) ==
    [n \in DOMAIN as \cup {alarm_name} |-> IF n = alarm_name THEN cfg ELSE as[n]]

\* delete_alarms: deleting a name that does not exist is not an error
DeleteAlarms(as, names) == [n \in DOMAIN as \ names |-> as[n]]

\* describe_alarms(AlarmNamePrefix=prefix)['MetricAlarms'], as name -> alarm;
\* the handlers read one page of the answer, taken here to hold every match
DescribeAlarms(as, prefix) ==
    [n \in {m \in DOMAIN as : StartsWith(m, prefix)} |-> as[n]]

NoAlarms == [n \in {} |-> 0]

\* the definition-change invocation's record (its steps are further down)
DcIdle ==
    [pc |-> "idle", batch |-> <<>>, count |-> 0, name |-> <<>>, type |-> <<>>,
     new_alarms |-> {}, existing |-> NoAlarms, remaining |-> {}, instance_id |-> <<>>,
     inner |-> {}, pre |-> NoAlarms, failed |-> FALSE, deleted |-> {}, puts |-> {},
     updates |-> {}, delivered |-> <<>>, failures_before |-> 0, replay |-> FALSE,
     once |-> NoAlarms]

DcEnded == {"idle", "done", "crashed"}

DcForget(d) == IF d.pc \in DcEnded THEN DcIdle ELSE d

\* ------------------------------------------- lifecycle handler (cw_alarm.py)

LcIdle ==
    [pc |-> "idle", instance_id |-> <<>>, transition |-> "", name |-> <<>>,
     type |-> <<>>, tagged |-> FALSE, defs |-> {}, todo |-> {}, listed |-> FALSE,
     names |-> {}, reads |-> 0, calls |-> 0, signals |-> 0, puts |-> {},
     lookup |-> "none", put_failed |-> FALSE, signal_failed |-> FALSE,
     pre |-> NoAlarms, failures_before |-> 0, replay |-> FALSE, once |-> NoAlarms]

LcEnded == {"idle", "done", "exited", "fatal", "crashed"}

\* An invocation that has ended leaves nothing behind for the next event.
LcForget(l) == IF l.pc \in LcEnded THEN LcIdle ELSE l

\* 'create-cloudwatch-alarm' in instance_tags
HasCreateTagAlways(instance_tags) == TRUE
HasCreateTag(instance_tags) == TagCreate \in DOMAIN instance_tags

\* Where the handler stands after reading the tags: the two subscripts raise
\* KeyError before the applicability test is made.
LcEntry(instance_tags, transition) ==
    IF TagName \notin DOMAIN instance_tags \/ TagType \notin DOMAIN instance_tags
    THEN "crashed"
    ELSE IF HasCreateTag(instance_tags)
    THEN (IF transition = LAUNCHING THEN "lookup"
          ELSE IF transition = TERMINATING THEN "list"
          ELSE "complete")
    ELSE "exited"

TagOr(instance_tags, k) == IF k \in DOMAIN instance_tags THEN instance_tags[k] ELSE <<>>

\* The definition handler's invocation on a provisioning event; an ended
\* invocation is forgotten when the next event arrives.
CfIdle ==
    [pc |-> "idle", request |-> "", document |-> "", cfg |-> {},
     writes |-> 0, written |-> <<>>, write_failed |-> FALSE]

CfEnded == {"idle", "done", "fatal", "crashed"}

CfForget(c) == IF c.pc \in CfEnded THEN CfIdle ELSE c

\* lambda_handler, up to the applicability test
LcStart(i, t) ==
    /\ lc.pc \in LcEnded
    /\ \/ t = LAUNCHING /\ phase[i] = "new"
       \/ t = TERMINATING /\ phase[i] = "launched"
    /\ phase' = [phase EXCEPT ![i] = IF t = LAUNCHING THEN "launched" ELSE "terminated"]
    /\ lc' = [LcIdle EXCEPT
                !.pc = LcEntry(tags[i], t),
                !.instance_id = i,
                !.transition = t,
                !.name = TagOr(tags[i], TagName),
                !.type = TagOr(tags[i], TagType),
                !.tagged = HasCreateTag(tags[i]),
                !.pre = alarms,
                !.failures_before = failures]
    /\ dc' = DcForget(dc)
    /\ cf' = CfForget(cf)
    /\ UNCHANGED <<alarms, store, stream, tags, writes, failures, naming>>

\* get_alarms(...)[table][0]['Alarms']: the item's Alarms, when there is an
\* item and it has the attribute
GetAlarmsOk(item) == item.found /\ item.hasAlarms

\* after the except branch of the lookup: sys.exit(-1)
AfterLookupErrorNoExit == "complete"
AfterLookupError == "fatal"

\* batch_get_item for one key
ReadItem(k) == IF k \in DOMAIN store THEN store[k] ELSE NoItem

LcLookup ==
    /\ lc.pc = "lookup"
    /\ \/ /\ LET item == ReadItem(<<lc.name, lc.type>>)
             IN  IF GetAlarmsOk(item)
                 THEN lc' = [lc EXCEPT !.pc = IF item.Alarms = {} THEN "complete" ELSE "create",
                                       !.defs = item.Alarms,
                                       !.todo = item.Alarms,
                                       !.lookup = "ok",
                                       !.reads = @ + 1]
                 ELSE lc' = [lc EXCEPT !.pc = AfterLookupError, !.lookup = "error",
                                       !.reads = @ + 1]
          /\ UNCHANGED failures
       \/ /\ failures < MaxFailures
          /\ failures' = failures + 1
          /\ lc' = [lc EXCEPT !.pc = AfterLookupError, !.lookup = "error",
                                !.reads = @ + 1]
    /\ UNCHANGED <<alarms, store, stream, tags, phase, writes, dc, cf, naming>>

LaunchFields ==
    {"MetricName", "AlarmName", "AlarmDescription", "ComparisonOperator",
     "Period", "Statistic", "Threshold", "ActionsEnabled"}

\* The loop body up to the put: every subscript finds its key (else
\* KeyError) and float(Threshold), int(Period) convert (else ValueError).
LaunchFieldsOk(spec) ==
    /\ \A f \in LaunchFields : spec[f].t # "missing"
    /\ ToNumber(spec.Threshold) # Err
    /\ ToNumber(spec.Period) # Err

\* alarm_name of the launch path
LaunchAlarmName(name, type, instance_id, spec) ==
    FormatAlarmName(name, type, instance_id, spec.AlarmName.v)

\* alarms[metric]['ActionsEnabled'] == 'True'
ActionEnabled(spec) == spec.ActionsEnabled.t = "S" /\ spec.ActionsEnabled.v = "True"

\* the alarm dictionary of create_alarm
LaunchConfig(instance_id, spec) ==
    [AlarmDescription |-> spec.AlarmDescription.v,
     MetricName |-> spec.MetricName.v,
     Namespace |-> Namespace,
     Dimensions |-> instance_id,
     Period |-> ToNumber(spec.Period),
     EvaluationPeriods |-> 1,
     Threshold |-> ToNumber(spec.Threshold),
     ComparisonOperator |-> spec.ComparisonOperator.v,
     Statistic |-> spec.Statistic.v,
     ActionsEnabled |-> ActionEnabled(spec),
     AlarmActions |-> {SNS_TOPIC_ARN}]

\* One iteration of 'for metric in alarms' (the map's order is not fixed).
LcCreate ==
    /\ lc.pc = "create"
    /\ \E spec \in lc.todo :
        LET rest == lc.todo \ {spec}
            nxt == IF rest = {} THEN "complete" ELSE "create"
            alarm_name == LaunchAlarmName(lc.name, lc.type, lc.instance_id, spec)
        IN  IF ~LaunchFieldsOk(spec)
            THEN /\ lc' = [lc EXCEPT !.pc = "crashed"]
                 /\ UNCHANGED <<alarms, failures>>
            ELSE \/ /\ alarms' = PutMetricAlarm(alarms, alarm_name,
                                                LaunchConfig(lc.instance_id, spec))
                    /\ lc' = [lc EXCEPT !.pc = nxt, !.todo = rest, !.calls = @ + 1,
                                        !.puts = @ \cup {alarm_name}]
                    /\ UNCHANGED failures
                 \/ /\ failures < MaxFailures
                    /\ failures' = failures + 1
                    /\ lc' = [lc EXCEPT !.pc = nxt, !.todo = rest, !.calls = @ + 1,
                                        !.put_failed = TRUE]
                    /\ UNCHANGED alarms
    /\ UNCHANGED <<store, stream, tags, phase, writes, dc, cf, naming>>

\* alarm_prefix of get_alarm_name
InstancePrefix(name, type, instance_id) == Dash(Dash(name, type), instance_id)

\* get_alarm_name: the names, or None when describe_alarms raised
LcList ==
    /\ lc.pc = "list"
    /\ \/ /\ lc' = [lc EXCEPT !.pc = "delete", !.listed = TRUE, !.calls = @ + 1,
                      !.names = DOMAIN DescribeAlarms(alarms,
                                    InstancePrefix(lc.name, lc.type, lc.instance_id))]
          /\ UNCHANGED failures
       \/ /\ failures < MaxFailures
          /\ failures' = failures + 1
          /\ lc' = [lc EXCEPT !.pc = "delete", !.listed = FALSE, !.calls = @ + 1]
    /\ UNCHANGED <<alarms, store, stream, tags, phase, writes, dc, cf, naming>>

\* cloudwatch.delete_alarms(AlarmNames=alarms_to_delete): not in a try; None
\* for AlarmNames is refused by the client's parameter validation
LcDelete ==
    /\ lc.pc = "delete"
    /\ IF ~lc.listed
       THEN /\ lc' = [lc EXCEPT !.pc = "crashed"]
            /\ UNCHANGED <<alarms, failures>>
       ELSE \/ /\ alarms' = DeleteAlarms(alarms, lc.names)
               /\ lc' = [lc EXCEPT !.pc = "complete", !.calls = @ + 1]
               /\ UNCHANGED failures
            \/ /\ failures < MaxFailures
               /\ failures' = failures + 1
               /\ lc' = [lc EXCEPT !.pc = "crashed", !.calls = @ + 1]
               /\ UNCHANGED alarms
    /\ UNCHANGED <<store, stream, tags, phase, writes, dc, cf, naming>>

\* autoscaling.complete_lifecycle_action(LifecycleActionResult='CONTINUE')
LcComplete ==
    /\ lc.pc = "complete"
    /\ \/ /\ lc' = [lc EXCEPT !.pc = "done", !.signals = @ + 1]
          /\ UNCHANGED failures
       \/ /\ failures < MaxFailures
          /\ failures' = failures + 1
          /\ lc' = [lc EXCEPT !.pc = "crashed", !.signal_failed = TRUE]
    /\ UNCHANGED <<alarms, store, stream, tags, phase, writes, dc, cf, naming>>

\* ------------------------------- definition-change handler (default_alarms.py)

\* The stream record of a write: the item's new image.
StreamRecord(k, item) ==
    [Name |-> k[1], Type |-> k[2], hasAlarms |-> item.hasAlarms, Alarms |-> item.Alarms]

\* lambda_handler / handle_cloudwatch_alarms: the records written since the
\* last delivery arrive as one batch
DcStart ==
    /\ dc.pc \in DcEnded
    /\ stream # <<>>
    /\ dc' = [DcIdle EXCEPT !.pc = "record", !.batch = stream, !.delivered = stream,
                             !.failures_before = failures]
    /\ stream' = <<>>
    /\ lc' = LcForget(lc)
    /\ cf' = CfForget(cf)
    /\ UNCHANGED <<alarms, store, tags, phase, writes, failures, naming>>

\* [a['M']['MetricName']['S'] for a in new_alarms.values()]
NewMetricNames(new_alarms) == {a.MetricName.v : a \in new_alarms}

\* new_image['Alarms']['M'] and the MetricName comprehension find their keys
RecordOk(rec) == rec.hasAlarms /\ \A a \in rec.Alarms : a.MetricName.t = "S"

\* prefix of get_existing_alarms_for_asg
AsgPrefix(name, type) == Dash(name, type)

\* Where the loops stand once the current step is over: the inner loop over
\* the new metric names, then the next existing alarm, then the next record.
DcAfter(d) ==
    IF d.inner # {} THEN [d EXCEPT !.pc = "create"]
    ELSE IF d.remaining # {} THEN [d EXCEPT !.pc = "alarm"]
    ELSE [d EXCEPT !.pc = "record", !.batch = Tail(@), !.count = @ + 1]

\* 'for record in records': the head of the loop, up to the listing
DcRecord ==
    /\ dc.pc = "record"
    /\ IF dc.batch = <<>>
       THEN /\ dc' = [dc EXCEPT !.pc = "done"]
            /\ UNCHANGED failures
       ELSE LET rec == Head(dc.batch)
                existing == DescribeAlarms(alarms, AsgPrefix(rec.Name, rec.Type))
                d == [dc EXCEPT !.name = rec.Name, !.type = rec.Type,
                                !.new_alarms = rec.Alarms, !.pre = alarms,
                                !.existing = NoAlarms, !.remaining = {},
                                !.inner = {}, !.failed = FALSE,
                                !.deleted = {}, !.puts = {}, !.updates = {}]
            IN  IF ~RecordOk(rec)
                THEN /\ dc' = [d EXCEPT !.pc = "crashed"]
                     /\ UNCHANGED failures
                ELSE \/ /\ dc' = DcAfter([d EXCEPT !.existing = existing,
                                                   !.remaining = DOMAIN existing])
                        /\ UNCHANGED failures
                     \/ /\ failures < MaxFailures
                        /\ failures' = failures + 1
                        /\ dc' = [d EXCEPT !.pc = "crashed"]
    /\ UNCHANGED <<alarms, store, stream, tags, phase, writes, lc, cf, naming>>

\* get_new_alarm_def
NoDef == [CPU80 EXCEPT !.key = "None", !.MetricName = MissingName]
GetNewAlarmDef(metric_name, new_alarms) ==
    IF \E a \in new_alarms : a.MetricName.v = metric_name
    THEN CHOOSE a \in new_alarms : a.MetricName.v = metric_name
    ELSE NoDef

DdbFields ==
    {"MetricName", "EvaluationPeriods", "ComparisonOperator", "Statistic",
     "Threshold", "Period"}

\* update_alarm / create_alarm up to the put: every field is there as a
\* string attribute (else KeyError) and the three conversions succeed
DdbFieldsOk(alarm_def) ==
    /\ \A f \in DdbFields : alarm_def[f].t = "S"
    /\ ToNumber(alarm_def.Threshold) # Err
    /\ ToNumber(alarm_def.Period) # Err
    /\ ToNumber(alarm_def.EvaluationPeriods) # Err

\* alarm_name of update_alarm
UpdateAlarmName(name, type, instance_id, alarm_def) ==
    FormatAlarmName(name, type, instance_id, alarm_def.MetricName.v)

\* alarm_name of create_alarm
CreateAlarmName(name, type, instance_id, alarm_def) ==
    FormatAlarmName(name, type, instance_id, alarm_def.MetricName.v)

\* the arguments of put_metric_alarm in update_alarm and create_alarm; what
\* is not passed takes the service's default
DdbConfig(instance_id, alarm_def) ==
    [AlarmDescription |-> Absent,
     MetricName |-> alarm_def.MetricName.v,
     Namespace |-> Namespace,
     Dimensions |-> instance_id,
     Period |-> ToNumber(alarm_def.Period),
     EvaluationPeriods |-> ToNumber(alarm_def.EvaluationPeriods),
     Threshold |-> ToNumber(alarm_def.Threshold),
     ComparisonOperator |-> alarm_def.ComparisonOperator.v,
     Statistic |-> alarm_def.Statistic.v,
     ActionsEnabled |-> TRUE,
     AlarmActions |-> {}]

\* [alarm['MetricName'] for alarm in existing_alarms]
ExistingMetricNames(existing) == {existing[n].MetricName : n \in DOMAIN existing}

\* the metrics the inner loop creates an alarm for
MetricsToCreate(new_alarms, existing) ==
    NewMetricNames(new_alarms) \ ExistingMetricNames(existing)

\* the name passed to delete_alarm, whose parameter is called metric_name
DeleteArgumentMetric(alarm_name, metric_name) == metric_name
DeleteArgument(alarm_name, metric_name) == alarm_name

\* One iteration of 'for existing_alarm in existing_alarms', up to its inner
\* loop: update the alarm or delete it.
DcExisting ==
    /\ dc.pc = "alarm"
    /\ \E alarm_name \in dc.remaining :
        LET existing_alarm == dc.existing[alarm_name]
            instance_id == DecodeInstanceId(alarm_name)
            metric_name == existing_alarm.MetricName
            d == [dc EXCEPT !.remaining = @ \ {alarm_name},
                            !.instance_id = instance_id,
                            !.inner = MetricsToCreate(dc.new_alarms, dc.existing)]
        IN  IF metric_name \in NewMetricNames(dc.new_alarms)
            THEN LET new_alarm == GetNewAlarmDef(metric_name, dc.new_alarms)
                     put_name == UpdateAlarmName(dc.name, dc.type, instance_id, new_alarm)
                 IN  IF ~DdbFieldsOk(new_alarm)
                     THEN /\ dc' = [d EXCEPT !.pc = "crashed"]
                          /\ UNCHANGED <<alarms, failures>>
                     ELSE \/ /\ alarms' = PutMetricAlarm(alarms, put_name,
                                                DdbConfig(instance_id, new_alarm))
                             /\ dc' = DcAfter([d EXCEPT !.puts = @ \cup {put_name},
                                        !.updates = @ \cup {<<alarm_name, put_name>>}])
                             /\ UNCHANGED failures
                          \/ /\ failures < MaxFailures
                             /\ failures' = failures + 1
                             /\ dc' = [d EXCEPT !.pc = "crashed", !.failed = TRUE]
                             /\ UNCHANGED alarms
            ELSE \/ /\ alarms' = DeleteAlarms(alarms, {DeleteArgument(alarm_name, metric_name)})
                    /\ dc' = DcAfter([d EXCEPT !.deleted = @ \cup
                                        {DeleteArgument(alarm_name, metric_name)}])
                    /\ UNCHANGED failures
                 \/ /\ failures < MaxFailures
                    /\ failures' = failures + 1
                    /\ dc' = DcAfter([d EXCEPT !.failed = TRUE])
                    /\ UNCHANGED alarms
    /\ UNCHANGED <<store, stream, tags, phase, writes, lc, cf, naming>>

\* One iteration of 'for m in new_metric_names' that passes the test
\* 'm not in existing_metric_names'.
DcCreate ==
    /\ dc.pc = "create"
    /\ \E m \in dc.inner :
        LET new_alarm == GetNewAlarmDef(m, dc.new_alarms)
            put_name == CreateAlarmName(dc.name, dc.type, dc.instance_id, new_alarm)
            d == [dc EXCEPT !.inner = @ \ {m}]
        IN  IF ~DdbFieldsOk(new_alarm)
            THEN /\ dc' = [d EXCEPT !.pc = "crashed"]
                 /\ UNCHANGED <<alarms, failures>>
            ELSE \/ /\ alarms' = PutMetricAlarm(alarms, put_name,
                                                DdbConfig(dc.instance_id, new_alarm))
                    /\ dc' = DcAfter([d EXCEPT !.puts = @ \cup {put_name}])
                    /\ UNCHANGED failures
                 \/ /\ failures < MaxFailures
                    /\ failures' = failures + 1
                    /\ dc' = [d EXCEPT !.pc = "crashed", !.failed = TRUE]
                    /\ UNCHANGED alarms
    /\ UNCHANGED <<store, stream, tags, phase, writes, lc, cf, naming>>

\* ----------------------------------------------------------------- replays

\* The event of the lifecycle invocation that has just run to its end is
\* delivered again (events are delivered at least once): lambda_handler from
\* its start
LcReplay ==
    /\ lc.pc = "done"
    /\ ~lc.replay
    /\ lc' = [LcIdle EXCEPT
                !.pc = LcEntry(tags[lc.instance_id], lc.transition),
                !.instance_id = lc.instance_id,
                !.transition = lc.transition,
                !.name = TagOr(tags[lc.instance_id], TagName),
                !.type = TagOr(tags[lc.instance_id], TagType),
                !.tagged = HasCreateTag(tags[lc.instance_id]),
                !.pre = alarms,
                !.failures_before = lc.failures_before,
                !.replay = TRUE,
                !.once = alarms]
    /\ UNCHANGED <<alarms, store, stream, tags, phase, writes, failures, dc, cf, naming>>

\* The batch of the definition-change invocation that has just run to its
\* end is delivered again: handle_cloudwatch_alarms from its start
DcReplay ==
    /\ dc.pc = "done"
    /\ ~dc.replay
    /\ dc' = [DcIdle EXCEPT
                !.pc = "record",
                !.batch = dc.delivered,
                !.delivered = dc.delivered,
                !.failures_before = dc.failures_before,
                !.replay = TRUE,
                !.once = alarms]
    /\ UNCHANGED <<alarms, store, stream, tags, phase, writes, failures, lc, cf, naming>>

\* ------------------------------------------------------------- environment

Items == {Item(defs) : defs \in DefSets} \cup {ItemNoAlarms}

\* ------------------------------------------------------------- bootstrap

\* handle_cloudformation_event: the identity the defaults are written under
SeedName == <<"a", "p", "p">>
SeedType == <<"d", "e", "v">>
SeedKey == <<SeedName, SeedType>>

\* event['RequestType'] of a provisioning event
RequestTypes == {"Create", "Update", "Delete"}

\* What open() and json.load() make of the bundled default_alarms.json: its
\* content, or no content when the file is absent or is not JSON.
Documents ==
    {[kind |-> "loaded", cfg |-> defs] : defs \in DefSets}
        \cup {[kind |-> "missing", cfg |-> {}], [kind |-> "malformed", cfg |-> {}]}

IsCreateOrUpdate(request) == request \in {"Create", "Update"}

\* if event['RequestType'] == 'Create'
IsCreate(request) == request = "Create"

\* lambda_handler on an event with 'RequestType' and no 'Records', then
\* handle_cloudformation_event up to the load
CfStart(request) ==
    /\ cf.pc \in CfEnded
    /\ writes < MaxWrites
    /\ cf' = [CfIdle EXCEPT
                !.pc = IF IsCreate(request) THEN "load" ELSE "done",
                !.request = request]
    /\ lc' = LcForget(lc)
    /\ dc' = DcForget(dc)
    /\ UNCHANGED <<alarms, store, stream, tags, phase, writes, failures, naming>>

\* the try around open and json.load: a document that is not JSON ends the
\* invocation with sys.exit(-1); an absent one leaves jsnfile unbound for
\* the handler's log line, which raises
CfLoad(document) ==
    /\ cf.pc = "load"
    /\ cf' = [cf EXCEPT
                !.pc = CASE document.kind = "loaded" -> "write"
                         [] document.kind = "malformed" -> "fatal"
                         [] OTHER -> "crashed",
                !.document = document.kind,
                !.cfg = document.cfg]
    /\ UNCHANGED <<alarms, store, stream, tags, phase, writes, failures, lc, dc, naming>>

\* write_default_alarms: one batch_write_item with one PutRequest; an error
\* of the call is logged
CfWrite ==
    /\ cf.pc = "write"
    /\ \/ /\ store' = [k \in DOMAIN store \cup {SeedKey} |->
                          IF k = SeedKey THEN Item(cf.cfg) ELSE store[k]]
          /\ stream' = Append(stream, StreamRecord(SeedKey, Item(cf.cfg)))
          /\ cf' = [cf EXCEPT !.pc = "done", !.writes = @ + 1,
                              !.written = Append(@, <<SeedKey, cf.cfg>>)]
          /\ writes' = writes + 1
          /\ UNCHANGED failures
       \/ /\ failures < MaxFailures
          /\ failures' = failures + 1
          /\ cf' = [cf EXCEPT !.pc = "done", !.writes = @ + 1,
                              !.written = Append(@, <<SeedKey, cf.cfg>>),
                              !.write_failed = TRUE]
          /\ UNCHANGED <<store, stream, writes>>
    /\ UNCHANGED <<alarms, tags, phase, lc, dc, naming>>

\* ---------------------------------------------------------------- naming

\* Strings over an alphabet, by length
RECURSIVE StringsOfLen(_, _)
StringsOfLen(alphabet, n) ==
    IF n = 0 THEN {<<>>}
    ELSE {Append(s, c) : s \in StringsOfLen(alphabet, n - 1), c \in alphabet}

StringsUpTo(alphabet, n) == UNION {StringsOfLen(alphabet, k) : k \in 0..n}

\* Longest instance id, and longest name, type and AlarmName, tried
MaxIdLen == 3
MaxWordLen == 1

\* The instance ids, and the names, types and AlarmNames, tried
IdStrings == StringsUpTo({"i", Hyphen}, MaxIdLen)
Words == StringsUpTo({"a", Hyphen}, MaxWordLen)

NamingIdle ==
    [pc |-> "idle", name |-> <<>>, type |-> <<>>, instance_id |-> <<>>,
     suffix |-> <<>>, alarm_name |-> <<>>, decoded |-> <<>>]

\* cw_alarm.lambda_handler builds the name of a definition's alarm
NamingBuild ==
    /\ naming.pc = "input"
    /\ naming' = [naming EXCEPT
                    !.pc = "built",
                    !.alarm_name = LaunchAlarmName(naming.name, naming.type,
                                       naming.instance_id,
                                       [CPU80 EXCEPT !.AlarmName = S(naming.suffix)])]
    /\ UNCHANGED <<alarms, store, stream, tags, phase, writes, failures, lc, dc, cf>>

\* handle_cloudwatch_alarms reads the instance id back from the name
NamingDecode ==
    /\ naming.pc = "built"
    /\ naming' = [naming EXCEPT
                    !.pc = "decoded",
                    !.decoded = DecodeInstanceId(naming.alarm_name)]
    /\ UNCHANGED <<alarms, store, stream, tags, phase, writes, failures, lc, dc, cf>>

\* ---------------------------------------------------------- administration

\* An administrator overwrites the item of an application identity; the
\* table's stream carries the new image to the definition-change handler.
AdminWrite(k, item) ==
    /\ writes < MaxWrites
    /\ store[k] # item
    /\ writes' = writes + 1
    /\ store' = [store EXCEPT ![k] = item]
    /\ stream' = Append(stream, StreamRecord(k, item))
    /\ lc' = LcForget(lc)
    /\ dc' = DcForget(dc)
    /\ cf' = CfForget(cf)
    /\ UNCHANGED <<alarms, tags, phase, failures, naming>>

\* The instances of the application's group, both carrying the
\* applicability tag.
AllTagged == [i \in Instances |-> Tagged(App, TypeP)]

\* An instance that lacks the applicability tag, with both, one or none of
\* the application tags, beside a tagged one.
NameTagOnly(name) == [k \in {TagName} |-> name]
SomeUntagged ==
    { [i \in Instances |-> IF i = I1 THEN t1 ELSE Tagged(App, TypeP)] :
        t1 \in {AppTagsOnly(App, TypeP), NameTagOnly(App), NoTags} }

Init ==
    /\ alarms = NoAlarms
    /\ store = [k \in Keys |-> NoItem]
    /\ stream = <<>>
    /\ tags = AllTagged
    /\ phase = [i \in Instances |-> "new"]
    /\ writes = 0
    /\ failures = 0
    /\ lc = LcIdle
    /\ dc = DcIdle
    /\ cf = CfIdle
    /\ naming = NamingIdle

\* No invocation is running.
Quiet == lc.pc \in LcEnded /\ dc.pc \in DcEnded /\ cf.pc \in CfEnded

\* Invocations run one after the other.
Next ==
    \/ \E k \in DOMAIN store, item \in Items : Quiet /\ AdminWrite(k, item)
    \/ \E i \in Instances, t \in {LAUNCHING, TERMINATING} : Quiet /\ LcStart(i, t)
    \/ LcLookup
    \/ LcCreate
    \/ LcList
    \/ LcDelete
    \/ LcComplete
    \/ Quiet /\ DcStart
    \/ DcRecord
    \/ DcExisting
    \/ DcCreate

Spec == Init /\ [][Next]_vars

\* The same handlers, with an instance that lacks the applicability tag.
InitTags ==
    /\ alarms = NoAlarms
    /\ store = [k \in Keys |-> NoItem]
    /\ stream = <<>>
    /\ tags \in SomeUntagged
    /\ phase = [i \in Instances |-> "new"]
    /\ writes = 0
    /\ failures = 0
    /\ lc = LcIdle
    /\ dc = DcIdle
    /\ cf = CfIdle
    /\ naming = NamingIdle

SpecTags == InitTags /\ [][Next]_vars

\* Alarm names built by the launch path and decoded by the definition-change
\* path, over every name, type, instance id and AlarmName of the bounds.
InitNaming ==
    /\ alarms = NoAlarms
    /\ store = [k \in Keys |-> NoItem]
    /\ stream = <<>>
    /\ tags = AllTagged
    /\ phase = [i \in Instances |-> "new"]
    /\ writes = 0
    /\ failures = 0
    /\ lc = LcIdle
    /\ dc = DcIdle
    /\ cf = CfIdle
    /\ naming \in {[NamingIdle EXCEPT !.pc = "input", !.name = name, !.type = type,
                                      !.instance_id = instance_id, !.suffix = suffix] :
                     name \in Words, type \in Words,
                     instance_id \in IdStrings, suffix \in Words}

NextNaming ==
    \/ NamingBuild
    \/ NamingDecode

SpecNaming == InitNaming /\ [][NextNaming]_vars

\* The stack's provisioning events reach the definition handler; one
\* instance carries the identity the defaults are written under, the other
\* no tag.
InitBoot ==
    /\ alarms = NoAlarms
    /\ store = [k \in {SeedKey} |-> NoItem]
    /\ stream = <<>>
    /\ tags = [i \in Instances |-> IF i = I1 THEN Tagged(SeedName, SeedType) ELSE NoTags]
    /\ phase = [i \in Instances |-> "new"]
    /\ writes = 0
    /\ failures = 0
    /\ lc = LcIdle
    /\ dc = DcIdle
    /\ cf = CfIdle
    /\ naming = NamingIdle

NextBoot ==
    \/ \E request \in RequestTypes : Quiet /\ CfStart(request)
    \/ \E document \in Documents : CfLoad(document)
    \/ CfWrite
    \/ \E k \in DOMAIN store, item \in Items : Quiet /\ AdminWrite(k, item)
    \/ \E i \in Instances, t \in {LAUNCHING, TERMINATING} : Quiet /\ LcStart(i, t)
    \/ LcLookup
    \/ LcCreate
    \/ LcList
    \/ LcDelete
    \/ LcComplete
    \/ Quiet /\ DcStart
    \/ DcRecord
    \/ DcExisting
    \/ DcCreate

SpecBoot == InitBoot /\ [][NextBoot]_vars

\* Two application identities, the one's '{name}-{type}' a prefix of the
\* other's, each with an instance.
Type2 == <<"p", "2">>
Keys2 == { <<App, TypeP>>, <<App, Type2>> }

InitIdent ==
    /\ alarms = NoAlarms
    /\ store = [k \in Keys2 |-> NoItem]
    /\ stream = <<>>
    /\ tags = [i \in Instances |-> IF i = I1 THEN Tagged(App, TypeP) ELSE Tagged(App, Type2)]
    /\ phase = [i \in Instances |-> "new"]
    /\ writes = 0
    /\ failures = 0
    /\ lc = LcIdle
    /\ dc = DcIdle
    /\ cf = CfIdle
    /\ naming = NamingIdle

SpecIdent == InitIdent /\ [][Next]_vars

\* Invocations run one after the other, and an event may be delivered twice
\* in a row.
NextReplay ==
    \/ \E k \in DOMAIN store, item \in Items : Quiet /\ AdminWrite(k, item)
    \/ \E i \in Instances, t \in {LAUNCHING, TERMINATING} : Quiet /\ LcStart(i, t)
    \/ Quiet /\ LcReplay
    \/ LcLookup
    \/ LcCreate
    \/ LcList
    \/ LcDelete
    \/ LcComplete
    \/ Quiet /\ DcStart
    \/ Quiet /\ DcReplay
    \/ DcRecord
    \/ DcExisting
    \/ DcCreate

SpecReplay == Init /\ [][NextReplay]_vars

\* The two handlers run concurrently: an event starts an invocation whatever
\* the other handler is doing, and the steps of the two interleave.
NextConc ==
    \/ \E k \in DOMAIN store, item \in Items : AdminWrite(k, item)
    \/ \E i \in Instances, t \in {LAUNCHING, TERMINATING} : LcStart(i, t)
    \/ LcLookup
    \/ LcCreate
    \/ LcList
    \/ LcDelete
    \/ LcComplete
    \/ DcStart
    \/ DcRecord
    \/ DcExisting
    \/ DcCreate

\* The state after the second instance has come and gone before any
\* definitions were written (its launch found no item, its termination no
\* alarm): no alarms, one instance yet to launch.
InitConc ==
    /\ alarms = NoAlarms
    /\ store = [k \in Keys |-> NoItem]
    /\ stream = <<>>
    /\ tags = AllTagged
    /\ phase = [i \in Instances |-> IF i = I1 THEN "new" ELSE "terminated"]
    /\ writes = 0
    /\ failures = 0
    /\ lc = LcIdle
    /\ dc = DcIdle
    /\ cf = CfIdle
    /\ naming = NamingIdle

SpecConc == InitConc /\ [][NextConc]_vars

\* ------------------------------------------------------------------ claims

\* The alarms of an application identity: those named '{name}-{type}-...'.
OfIdentity(n, name, type) == StartsWith(n, Dash(name, type) \o <<Hyphen>>)

\* The alarms an instance carried for an identity in a set of alarms: the
\* alarm watches the instance (its InstanceId dimension).
AlarmsOf(as, name, type, i) ==
    {n \in DOMAIN as : OfIdentity(n, name, type) /\ as[n].Dimensions = i}

MetricsOf(as, names) == {as[n].MetricName : n \in names}

\* The definition-change handler has just finished a record of its batch.
RecordFinished == dc.pc \in {"record", "done"} /\ dc.count > 0

\* C1: once a definition-change record has been processed without a failed
\* client call, every instance that carried an alarm of the identity before
\* it has an alarm for every new metric that was not among that instance's
\* own alarms' metrics.
C1_AddPerInstance ==
    (RecordFinished /\ ~dc.failed) =>
        \A i \in Instances :
            LET mine == AlarmsOf(dc.pre, dc.name, dc.type, i)
            IN  mine # {} =>
                    \A m \in NewMetricNames(dc.new_alarms) \ MetricsOf(dc.pre, mine) :
                        \E n \in DOMAIN alarms :
                            alarms[n].Dimensions = i /\ alarms[n].MetricName = m

\* C2: every update of the definition-change handler is put under the name
\* the existing alarm already has.
C2_UpdateKeepsName ==
    \A u \in dc.updates : u[2] = u[1]

\* C3: after a failed create, update or delete call (the definitions being
\* well formed) the definition-change handler still goes through every
\* remaining existing alarm, every remaining new metric and every remaining
\* record (an invocation that raised leaves at most the record it was on in
\* the batch).
C3_FaultIsolation ==
    (/\ dc.pc \in {"done", "crashed"}
     /\ dc.failed
     /\ \A a \in dc.new_alarms : DdbFieldsOk(a)) =>
        /\ dc.remaining = {}
        /\ dc.inner = {}
        /\ Len(dc.batch) <= 1

\* C4: a TERMINATING event of a tagged instance that ran to its end has
\* deleted every alarm that watched the instance and no alarm that watched
\* another instance.
C4_TerminateDeletesOwnOnly ==
    (lc.pc = "done" /\ lc.transition = TERMINATING) =>
        \A n \in DOMAIN lc.pre :
            IF lc.pre[n].Dimensions = lc.instance_id /\ OfIdentity(n, lc.name, lc.type)
            THEN n \notin DOMAIN alarms
            ELSE n \in DOMAIN alarms

\* the documented lifecycle completion call itself went through
Signalled == lc.signals = 1

\* C5: a LAUNCHING event of a tagged instance whose definitions were
\* retrieved ends, unless the completion call itself fails, with the
\* completion signalled exactly once after every definition was attempted.
C5_LaunchSignalsOnce ==
    (/\ lc.transition = LAUNCHING
     /\ lc.lookup = "ok"
     /\ lc.pc \in {"done", "crashed"}
     /\ ~lc.signal_failed) =>
        Signalled /\ lc.todo = {}

\* the boolean an ActionsEnabled attribute stands for
SpecActionsEnabled(spec) ==
    \/ spec.ActionsEnabled.t = "BOOL" /\ spec.ActionsEnabled.n = 1
    \/ spec.ActionsEnabled.t = "S" /\ spec.ActionsEnabled.v = "True"

\* C6: a LAUNCHING event of a tagged instance that ran to its end with no
\* failed put has created, for every retrieved definition, the alarm
\* '{app}-{type}-{i}-{MetricName}' with the definition's values, and no
\* other alarm.
C6_LaunchCreatesPerSpec ==
    (/\ lc.transition = LAUNCHING
     /\ lc.lookup = "ok"
     /\ lc.pc = "done"
     /\ ~lc.put_failed) =>
        /\ \A spec \in lc.defs :
            LET n == FormatAlarmName(lc.name, lc.type, lc.instance_id, spec.MetricName.v)
            IN  /\ n \in DOMAIN alarms
                /\ alarms[n].MetricName = spec.MetricName.v
                /\ alarms[n].Threshold = ToNumber(spec.Threshold)
                /\ alarms[n].Period = ToNumber(spec.Period)
                /\ alarms[n].Statistic = spec.Statistic.v
                /\ alarms[n].ComparisonOperator = spec.ComparisonOperator.v
                /\ alarms[n].ActionsEnabled = SpecActionsEnabled(spec)
        /\ lc.puts = {FormatAlarmName(lc.name, lc.type, lc.instance_id, spec.MetricName.v) :
                        spec \in lc.defs}

\* C7: when the definition lookup of the launch path fails, the invocation
\* is over (sys.exit(-1)): no alarm call was made, the alarms are as they
\* were and no completion was signalled.
C7_LookupErrorFatal ==
    lc.lookup = "error" =>
        /\ lc.pc = "fatal"
        /\ lc.calls = 0
        /\ lc.puts = {}
        /\ alarms = lc.pre
        /\ lc.signals = 0

\* the lookup found an item without its Alarms attribute
C7_Witness ==
    /\ lc.lookup = "error"
    /\ lc.pc = "fatal"
    /\ failures = 0
    /\ store[<<lc.name, lc.type>>] = ItemNoAlarms

\* C8: a lifecycle event of an instance without the applicability tag reads
\* no definition, makes no alarm call and signals no completion, whatever
\* its other tags.
C8_UntaggedNoCalls ==
    (lc.pc # "idle" /\ TagCreate \notin DOMAIN tags[lc.instance_id]) =>
        /\ lc.pc \in {"exited", "crashed"}
        /\ lc.reads = 0
        /\ lc.calls = 0
        /\ lc.signals = 0
        /\ alarms = lc.pre

\* an untagged instance with both application tags went through a
\* terminate event while definitions were stored
C8_Witness ==
    /\ lc.pc = "exited"
    /\ lc.transition = TERMINATING
    /\ TagCreate \notin DOMAIN tags[lc.instance_id]
    /\ TagName \in DOMAIN tags[lc.instance_id]
    /\ store[<<App, TypeP>>].found

\* C9: a TERMINATING event of a tagged instance ends, unless the completion
\* call itself fails, with the completion signalled.
C9_TerminateSignals ==
    (/\ lc.transition = TERMINATING
     /\ TagCreate \in DOMAIN tags[lc.instance_id]
     /\ lc.pc \in {"done", "crashed", "exited", "fatal"}
     /\ ~lc.signal_failed) =>
        Signalled

\* C10: once a definition-change record has been processed without a failed
\* client call, every alarm the identity had before whose metric is not in
\* the new definitions was deleted under exactly its name (and is gone,
\* unless the handler itself put an alarm under that name), and every alarm
\* whose metric is in the new definitions is still there.
C10_RemoveDropped ==
    (RecordFinished /\ ~dc.failed) =>
        LET had == {n \in DOMAIN dc.pre : OfIdentity(n, dc.name, dc.type)}
            dropped == {n \in had :
                          dc.pre[n].MetricName \notin NewMetricNames(dc.new_alarms)}
        IN  /\ dropped \subseteq dc.deleted
            /\ \A n \in dropped : n \notin DOMAIN alarms \/ n \in dc.puts
            /\ \A n \in had \ dropped : n \in DOMAIN alarms

\* a record that dropped one metric of an instance and kept another
C10_Witness ==
    /\ RecordFinished
    /\ ~dc.failed
    /\ \E n \in dc.deleted, k \in DOMAIN dc.pre :
        /\ n \notin DOMAIN alarms
        /\ dc.pre[k].Dimensions = dc.pre[n].Dimensions
        /\ dc.pre[k].MetricName \in NewMetricNames(dc.new_alarms)
        /\ k \in DOMAIN alarms


\* C11: a definition-change event touches only instances that already carry
\* an alarm of the application identity: when a record has been processed,
\* an instance that had no alarm of the identity when the alarms were listed
\* has none afterwards.
C11_OnlyInstancesWithAlarms ==
    RecordFinished =>
        \A i \in Instances :
            AlarmsOf(dc.pre, dc.name, dc.type, i) = {}
                => AlarmsOf(alarms, dc.name, dc.type, i) = {}

\* C16: a definition-change event for one identity leaves the alarms of
\* every other identity as they were: none created, changed or deleted,
\* also when the identity's '{name}-{type}' is a prefix of the other's.
C16_OtherIdentityUntouched ==
    RecordFinished =>
        \A n \in DOMAIN dc.pre \cup DOMAIN alarms :
            ~OfIdentity(n, dc.name, dc.type)
                => /\ n \in DOMAIN dc.pre
                   /\ n \in DOMAIN alarms
                   /\ alarms[n] = dc.pre[n]


HyphenFree(s) == \A k \in 1..Len(s) : s[k] # Hyphen

\* C12: for a name, type and AlarmName without hyphen and any instance id,
\* hyphens included, the instance id the definition-change path decodes from
\* the alarm name the launch path built is that instance id.
C12_NamingRoundTrip ==
    (/\ naming.pc = "decoded"
     /\ HyphenFree(naming.name)
     /\ HyphenFree(naming.type)
     /\ HyphenFree(naming.suffix))
        => naming.decoded = naming.instance_id

\* A name with a hyphen inside its instance id has been built and decoded.
C12_Witness ==
    /\ naming.pc = "decoded"
    /\ HyphenFree(naming.name) /\ HyphenFree(naming.type) /\ HyphenFree(naming.suffix)
    /\ Len(naming.name) > 0 /\ Len(naming.type) > 0 /\ Len(naming.suffix) > 0
    /\ Len(naming.instance_id) = 3
    /\ naming.instance_id[2] = Hyphen

\* C14: a provisioning event of type Create whose document loads makes
\* exactly one write to the definitions table, of the document under
\* (app, dev); an event of another type, or a Create whose document does
\* not load, makes none, and the failed load ends the invocation abnormally.
C14_BootstrapWrites ==
    cf.pc \in {"done", "fatal", "crashed"} =>
        IF cf.request = "Create" /\ cf.document = "loaded"
        THEN /\ cf.pc = "done"
             /\ cf.writes = 1
             /\ cf.written = << <<SeedKey, cf.cfg>> >>
             /\ ~cf.write_failed => store[SeedKey] = Item(cf.cfg)
        ELSE /\ cf.writes = 0
             /\ cf.written = <<>>
             /\ cf.request = "Create" => cf.pc \in {"fatal", "crashed"}

\* A Create event has written a loaded document.
C14_Witness ==
    /\ cf.pc = "done"
    /\ cf.request = "Create"
    /\ cf.writes = 1
    /\ ~cf.write_failed
    /\ store[SeedKey] = Item({CPU80, MEM})

\* C17: the configuration the definition-change path writes for a
\* definition and an instance is the one the launch path writes for them.
C17_SameConfiguration ==
    dc.pc \in {"alarm", "create", "record", "done"} =>
        \A n \in dc.puts :
            (n \in DOMAIN alarms /\ alarms[n].MetricName \in NewMetricNames(dc.new_alarms))
                => alarms[n] = LaunchConfig(alarms[n].Dimensions,
                                   GetNewAlarmDef(alarms[n].MetricName, dc.new_alarms))


C15_TerminatedHasNoAlarm ==
    (/\ lc.pc = "done"
     /\ lc.transition = TERMINATING
     /\ dc.pc = "done"
     /\ failures = lc.failures_before
     /\ failures = dc.failures_before)
        => \A n \in DOMAIN alarms : alarms[n].Dimensions # lc.instance_id

\* C18: when a LAUNCHING invocation for a tagged instance and a concurrent
\* definition-change invocation for its identity have both run to their end
\* with no failed call, and no definition change waits to be delivered, the
\* metrics of the instance's alarms are those of the stored definitions.
C18_LaunchConverges ==
    (/\ lc.pc = "done"
     /\ lc.transition = LAUNCHING
     /\ dc.pc = "done"
     /\ stream = <<>>
     /\ failures = lc.failures_before
     /\ failures = dc.failures_before
     /\ store[<<lc.name, lc.type>>].found
     /\ store[<<lc.name, lc.type>>].hasAlarms)
        => MetricsOf(alarms, AlarmsOf(alarms, lc.name, lc.type, lc.instance_id))
               = NewMetricNames(store[<<lc.name, lc.type>>].Alarms)

====
